---- MODULE Spec2Model ----
(***************************************************************************)
(* Model of src/nifs/atomvm_lib.c: the five native functions of the        *)
(* atomvm_lib NIF collection (set_rtc_memory/1, get_rtc_memory/0,          *)
(* get_mac/0, sha1/1, set_time_of_day/1), the retained RTC buffer they     *)
(* share, and the name resolution entry point atomvm_lib_get_nif.          *)
(*                                                                         *)
(* Spec      : the VM serialises native calls; each call is one step.      *)
(* SpecConc  : one set_rtc_memory and one get_rtc_memory run in two        *)
(*             execution contexts, their loads and stores interleaved.     *)
(***************************************************************************)
EXTENDS Integers, Sequences, FiniteSets

VARIABLES
    data,          \* RTC_DATA_ATTR char *data[CONFIG_RTC_MEMORY_SIZE], its first bytes
    data_len,      \* RTC_DATA_ATTR size_t data_len
    clock,         \* the OS wall clock, as the last struct timeval accepted
    mac,           \* the 6 bytes esp_efuse_mac_get_default yields on this device
    op,            \* the entry point that ran last ("boot" before any)
    arg,           \* its argv[0] (NoTerm for arity 0)
    chan,          \* how it came back: "return" or "raise"
    value,         \* the term returned, or the raised reason
    events,        \* what the call did to heap and OS, in program order
    last_ok_set,   \* history: bytes of the last set_rtc_memory that returned ok
    set_pc, set_arg, set_i, set_len,          \* SpecConc: the writer's position
    get_pc, get_size, get_len, get_buf,       \* SpecConc: the reader's position
    old_content                               \* SpecConc: store content at round start

serial_vars == <<clock, mac, op, arg, chan, value, events, last_ok_set>>
conc_vars == <<set_pc, set_arg, set_i, set_len, get_pc, get_size, get_len, get_buf, old_content>>
vars == <<data, data_len, serial_vars, conc_vars>>

----------------------------------------------------------------------------
(* Bounds of the model *)

CONFIG_RTC_MEMORY_SIZE == 2     \* capacity of the retained buffer (sdkconfig)
MaxByte == 1                    \* bytes range over 0..MaxByte
MaxSec == 1                     \* timestamps cover -MaxSec..MaxSec seconds

(* Program constants *)

MAC_LENGTH == 6
SHA1_LEN == 20

----------------------------------------------------------------------------
(* Managed values (terms) *)

Atom(name) == [kind |-> "atom", name |-> name]
Binary(bytes) == [kind |-> "binary", bytes |-> bytes]
Integer(val) == [kind |-> "integer", val |-> val]
Tuple2(a, b) == [kind |-> "tuple", elems |-> <<a, b>>]
NoTerm == [kind |-> "none"]

OK_ATOM == Atom("ok")
ERROR_ATOM == Atom("error")
BADARG_ATOM == Atom("badarg")
OUT_OF_MEMORY_ATOM == Atom("out_of_memory")

term_is_binary(t) == t.kind = "binary"
term_is_any_integer(t) == t.kind = "integer"
term_binary_size(t) == Len(t.bytes)
term_binary_data(t) == t.bytes
term_maybe_unbox_int64(t) == t.val

\* words of heap a binary of `size` bytes needs: header, size word, data words
term_binary_heap_size(size) == ((size + 3) \div 4) + 2
\* words of heap a tuple of `n` elements needs
TUPLE_SIZE(n) == n + 1

Bytes == 0..MaxByte
RECURSIVE SeqsUpTo(_)
SeqsUpTo(n) ==
    IF n = 0 THEN {<<>>}
    ELSE LET shorter == SeqsUpTo(n - 1)
         IN shorter \cup {Append(s, b) : s \in {t \in shorter : Len(t) = n - 1}, b \in Bytes}

\* arguments managed code may pass where a binary is expected: every binary
\* that fits the buffer, and binaries one byte longer than the buffer
TooLongSeqs == {[i \in 1..(CONFIG_RTC_MEMORY_SIZE + 1) |-> b] : b \in Bytes}
BinaryArgs == {Binary(s) : s \in SeqsUpTo(CONFIG_RTC_MEMORY_SIZE) \cup TooLongSeqs}
Sha1Args == {Binary(s) : s \in SeqsUpTo(1)}
NonBinaryArgs == {Integer(7), Atom("foo")}
\* arguments managed code may pass where an integer is expected
MsRemainders == {0, 1}
REPRESENTATIVE_MS == 1700000 * 1000
MsValues == {s * 1000 + r : s \in (-MaxSec)..MaxSec, r \in MsRemainders}
                \cup {REPRESENTATIVE_MS}
IntegerArgs == {Integer(ms) : ms \in MsValues}
NonIntegerArgs == {Binary(<<>>), Atom("foo")}

----------------------------------------------------------------------------
(* What a call records of its effects on the heap and on the OS *)

EnsureFree(words, ok) == [ev |-> "memory_ensure_free", words |-> words, ok |-> ok]
Construct(words) == [ev |-> "construct", words |-> words, ok |-> TRUE]
OsCall(name, ok) == [ev |-> name, words |-> 0, ok |-> ok]
\* settimeofday(&tp, &tz) and whether it returned 0
SetTimeOfDayCall(tp, ok) == [ev |-> "settimeofday", words |-> 0, ok |-> ok, tp |-> tp]

\* result of a native call: channel, term, effects, and the state it leaves
Outcome(c, v, evs, d, dl, clk) ==
    [chan |-> c, value |-> v, events |-> evs, data |-> d, data_len |-> dl, clock |-> clk]

----------------------------------------------------------------------------
(* memcpy(dest, src, n): the first n bytes of dest become those of src *)

memcpy_short(dest, src, n) ==
    [i \in 1..Len(dest) |-> IF i <= n - 1 THEN src[i] ELSE dest[i]]

memcpy(dest, src, n) ==
    [i \in 1..Len(dest) |-> IF i <= n THEN src[i] ELSE dest[i]]

\* term_from_literal_binary(data, size, ...): a new binary holding a copy
term_from_literal_binary(d, size) == Binary([i \in 1..size |-> d[i]])

----------------------------------------------------------------------------
(* nif_set_rtc_memory *)

exceeds_capacity_off_by_one(binary_len) == CONFIG_RTC_MEMORY_SIZE + 1 < binary_len

\* if (CONFIG_RTC_MEMORY_SIZE < binary_len)
exceeds_capacity(binary_len) == CONFIG_RTC_MEMORY_SIZE < binary_len

\* as nif_set_rtc_memory, with data_len stored before the size check
nif_set_rtc_memory_len_first(binary, d, dl, clk) ==
    IF ~term_is_binary(binary)
    THEN Outcome("raise", BADARG_ATOM, <<>>, d, dl, clk)
    ELSE LET binary_len == term_binary_size(binary)
         IN IF exceeds_capacity(binary_len)
            THEN Outcome("raise", BADARG_ATOM, <<>>, d, binary_len, clk)
            ELSE Outcome("return", OK_ATOM, <<>>,
                         memcpy(d, term_binary_data(binary), binary_len), binary_len, clk)

nif_set_rtc_memory(binary, d, dl, clk) ==
    IF ~term_is_binary(binary)
    THEN Outcome("raise", BADARG_ATOM, <<>>, d, dl, clk)
    ELSE LET binary_len == term_binary_size(binary)
         IN IF exceeds_capacity(binary_len)
            THEN Outcome("raise", BADARG_ATOM, <<>>, d, dl, clk)
            ELSE Outcome("return", OK_ATOM, <<>>,
                         memcpy(d, term_binary_data(binary), binary_len), binary_len, clk)

----------------------------------------------------------------------------
(* nif_get_rtc_memory; gc_ok: memory_ensure_free returned MEMORY_GC_OK *)

\* as nif_get_rtc_memory, but the read empties the store
nif_get_rtc_memory_destructive(gc_ok, d, dl, clk) ==
    LET words == term_binary_heap_size(dl)
    IN IF ~gc_ok
       THEN Outcome("raise", OUT_OF_MEMORY_ATOM, <<EnsureFree(words, FALSE)>>, d, dl, clk)
       ELSE Outcome("return", term_from_literal_binary(d, dl),
                    <<EnsureFree(words, TRUE), Construct(words)>>, d, 0, clk)

nif_get_rtc_memory(gc_ok, d, dl, clk) ==
    LET words == term_binary_heap_size(dl)
    IN IF ~gc_ok
       THEN Outcome("raise", OUT_OF_MEMORY_ATOM, <<EnsureFree(words, FALSE)>>, d, dl, clk)
       ELSE Outcome("return", term_from_literal_binary(d, dl),
                    <<EnsureFree(words, TRUE), Construct(words)>>, d, dl, clk)

----------------------------------------------------------------------------
(* nif_get_mac *)

\* one hexadecimal digit as the character code "%x" prints
HexChar(digit) == IF digit < 10 THEN 48 + digit ELSE 87 + digit

\* snprintf(buf, ..., "%02x%02x%02x%02x%02x%02x", mac[0], ..., mac[5])
snprintf_mac(m) ==
    [i \in 1..(2 * MAC_LENGTH) |->
        LET byte == m[(i + 1) \div 2]
        IN IF i % 2 = 1 THEN HexChar(byte \div 16) ELSE HexChar(byte % 16)]

nif_get_mac(gc_ok, m, d, dl, clk) ==
    LET words == term_binary_heap_size(2 * MAC_LENGTH)
        read == OsCall("esp_efuse_mac_get_default", TRUE)
    IN IF ~gc_ok
       THEN Outcome("raise", OUT_OF_MEMORY_ATOM, <<read, EnsureFree(words, FALSE)>>, d, dl, clk)
       ELSE Outcome("return", term_from_literal_binary(snprintf_mac(m), 2 * MAC_LENGTH),
                    <<read, EnsureFree(words, TRUE), Construct(words)>>, d, dl, clk)

----------------------------------------------------------------------------
(* nif_sha1; res: what mbedtls_sha1_ret returned *)

RECURSIVE SumBytes(_)
SumBytes(s) == IF s = <<>> THEN 0 ELSE Head(s) + SumBytes(Tail(s))

\* the 20 bytes the digest engine writes: a fixed function of the input bytes
\* (the digest itself is computed by mbedtls, outside this file)
mbedtls_sha1_ret(bytes) ==
    [i \in 1..SHA1_LEN |-> (SumBytes(bytes) + i * (Len(bytes) + 1)) % 256]

\* as nif_sha1, with the result binary created before the heap check
nif_sha1_construct_first(binary, gc_ok, res, d, dl, clk) ==
    IF ~term_is_binary(binary)
    THEN Outcome("raise", BADARG_ATOM, <<>>, d, dl, clk)
    ELSE LET words == term_binary_heap_size(SHA1_LEN)
         IN IF ~gc_ok
            THEN Outcome("raise", OUT_OF_MEMORY_ATOM,
                         <<Construct(words), EnsureFree(words, FALSE)>>, d, dl, clk)
            ELSE LET evs == <<Construct(words), EnsureFree(words, TRUE),
                              OsCall("mbedtls_sha1_ret", res = 0)>>
                 IN IF res # 0
                    THEN Outcome("raise", BADARG_ATOM, evs, d, dl, clk)
                    ELSE Outcome("return", Binary(mbedtls_sha1_ret(term_binary_data(binary))),
                                 evs, d, dl, clk)

nif_sha1(binary, gc_ok, res, d, dl, clk) ==
    IF ~term_is_binary(binary)
    THEN Outcome("raise", BADARG_ATOM, <<>>, d, dl, clk)
    ELSE LET words == term_binary_heap_size(SHA1_LEN)
         IN IF ~gc_ok
            THEN Outcome("raise", OUT_OF_MEMORY_ATOM, <<EnsureFree(words, FALSE)>>, d, dl, clk)
            ELSE LET evs == <<EnsureFree(words, TRUE), Construct(words),
                              OsCall("mbedtls_sha1_ret", res = 0)>>
                 IN IF res # 0
                    THEN Outcome("raise", BADARG_ATOM, evs, d, dl, clk)
                    ELSE Outcome("return", Binary(mbedtls_sha1_ret(term_binary_data(binary))),
                                 evs, d, dl, clk)

----------------------------------------------------------------------------
(* nif_set_time_of_day; res, errno: what settimeofday returned and set *)

\* C's integer division and remainder: the quotient truncates toward zero
CDiv(a, b) == IF a >= 0 THEN a \div b ELSE -((-a) \div b)
CRem(a, b) == a - b * CDiv(a, b)

\* struct timeval tp = { .tv_sec = ms / 1000, .tv_usec = (ms % 1000) * 1000 }
timeval_of_ms(ms) == [tv_sec |-> CDiv(ms, 1000), tv_usec |-> CRem(ms, 1000) * 1000]

\* as nif_set_time_of_day, with the OS call made before the argument is checked
nif_set_time_of_day_unchecked(t, res, errno, gc_ok, d, dl, clk) ==
    LET ms == IF term_is_any_integer(t) THEN term_maybe_unbox_int64(t) ELSE 0
        tp == timeval_of_ms(ms)
        call == SetTimeOfDayCall(tp, res = 0)
        now == IF res = 0 THEN tp ELSE clk
    IN IF ~term_is_any_integer(t)
       THEN Outcome("raise", BADARG_ATOM, <<call>>, d, dl, now)
       ELSE IF res # 0
            THEN IF ~gc_ok
                 THEN Outcome("raise", OUT_OF_MEMORY_ATOM,
                              <<call, EnsureFree(TUPLE_SIZE(2), FALSE)>>, d, dl, clk)
                 ELSE Outcome("raise", Tuple2(ERROR_ATOM, Integer(errno)),
                              <<call, EnsureFree(TUPLE_SIZE(2), TRUE), Construct(TUPLE_SIZE(2))>>,
                              d, dl, clk)
            ELSE Outcome("return", OK_ATOM, <<call>>, d, dl, tp)

nif_set_time_of_day(t, res, errno, gc_ok, d, dl, clk) ==
    IF ~term_is_any_integer(t)
    THEN Outcome("raise", BADARG_ATOM, <<>>, d, dl, clk)
    ELSE LET ms_since_unix_epoch == term_maybe_unbox_int64(t)
             tp == timeval_of_ms(ms_since_unix_epoch)
             call == SetTimeOfDayCall(tp, res = 0)
         IN IF res # 0
            THEN IF ~gc_ok
                 THEN Outcome("raise", OUT_OF_MEMORY_ATOM,
                              <<call, EnsureFree(TUPLE_SIZE(2), FALSE)>>, d, dl, clk)
                 ELSE \* return RAISE_ERROR(error);
                      Outcome("raise", Tuple2(ERROR_ATOM, Integer(errno)),
                              <<call, EnsureFree(TUPLE_SIZE(2), TRUE), Construct(TUPLE_SIZE(2))>>,
                              d, dl, clk)
            ELSE Outcome("return", OK_ATOM, <<call>>, d, dl, tp)

----------------------------------------------------------------------------
(* The descriptors and atomvm_lib_get_nif *)

Nif(ptr) == [kind |-> "nif", type |-> "NIFFunctionType", nif_ptr |-> ptr]
NULL == [kind |-> "null"]

set_rtc_memory_nif == Nif("nif_set_rtc_memory")
get_rtc_memory_nif == Nif("nif_get_rtc_memory")
get_mac_nif == Nif("nif_get_mac")
sha1_nif == Nif("nif_sha1")
set_time_of_day_nif == Nif("nif_set_time_of_day")

\* strcmp(a, b): 0 exactly when the two strings are the same
strcmp(a, b) == IF a = b THEN 0 ELSE 1

\* as atomvm_lib_get_nif, comparing the name without its arity
atomvm_lib_get_nif_no_arity(nifname) ==
    IF nifname \in {"atomvm_lib:set_rtc_memory/1", "atomvm_lib:set_rtc_memory/0"}
    THEN set_rtc_memory_nif
    ELSE IF strcmp("atomvm_lib:get_rtc_memory/0", nifname) = 0 THEN get_rtc_memory_nif
    ELSE IF strcmp("atomvm_lib:get_mac/0", nifname) = 0 THEN get_mac_nif
    ELSE IF nifname \in {"atomvm_lib:sha1/1", "atomvm_lib:sha1/2"} THEN sha1_nif
    ELSE IF strcmp("atomvm_lib:set_time_of_day/1", nifname) = 0 THEN set_time_of_day_nif
    ELSE NULL

atomvm_lib_get_nif(nifname) ==
    IF strcmp("atomvm_lib:set_rtc_memory/1", nifname) = 0 THEN set_rtc_memory_nif
    ELSE IF strcmp("atomvm_lib:get_rtc_memory/0", nifname) = 0 THEN get_rtc_memory_nif
    ELSE IF strcmp("atomvm_lib:get_mac/0", nifname) = 0 THEN get_mac_nif
    ELSE IF strcmp("atomvm_lib:sha1/1", nifname) = 0 THEN sha1_nif
    ELSE IF strcmp("atomvm_lib:set_time_of_day/1", nifname) = 0 THEN set_time_of_day_nif
    ELSE NULL

NifNames ==
    {"atomvm_lib:set_rtc_memory/1", "atomvm_lib:get_rtc_memory/0", "atomvm_lib:get_mac/0",
     "atomvm_lib:sha1/1", "atomvm_lib:set_time_of_day/1",
     "atomvm_lib:set_rtc_memory/0", "atomvm_lib:sha1/2", "esp:get_mac/0",
     "atomvm_lib:get_mac", "atomvm_lib:random/0", ""}

----------------------------------------------------------------------------
(* State after a cold boot: data_len = 0, data zero-filled *)

\* the factory MAC of the device the model runs on (24:0a:c4:00:ab:ff)
DeviceMac == <<36, 10, 196, 0, 171, 255>>

InitStore ==
    /\ data = [i \in 1..CONFIG_RTC_MEMORY_SIZE |-> 0]
    /\ data_len = 0

InitSerial ==
    /\ clock = [tv_sec |-> 0, tv_usec |-> 0]
    /\ mac = DeviceMac
    /\ op = "boot"
    /\ arg = NoTerm
    /\ chan = "return"
    /\ value = NoTerm
    /\ events = <<>>
    /\ last_ok_set = <<>>

InitConc ==
    /\ set_pc = "idle"
    /\ set_arg = NoTerm
    /\ set_i = 0
    /\ set_len = 0
    /\ get_pc = "idle"
    /\ get_size = 0
    /\ get_len = 0
    /\ get_buf = <<>>
    /\ old_content = <<>>

Init == InitStore /\ InitSerial /\ InitConc

----------------------------------------------------------------------------
(* Serialised calls: one step per native call *)

\* the VM runs native function `name` on `a` and observes outcome `out`
Call(name, a, out) ==
    /\ op' = name
    /\ arg' = a
    /\ chan' = out.chan
    /\ value' = out.value
    /\ events' = out.events
    /\ data' = out.data
    /\ data_len' = out.data_len
    /\ clock' = out.clock
    /\ UNCHANGED <<mac, conc_vars>>

\* what settimeofday may answer (0, or -1 with errno EPERM or EINVAL) and
\* whether the heap then has room for the error tuple
SetTimeOfDayResults ==
    {[res |-> 0, errno |-> 0, gc_ok |-> TRUE]}
        \cup {[res |-> -1, errno |-> e, gc_ok |-> g] : e \in {1, 22}, g \in BOOLEAN}

SetRtcMemory ==
    \E a \in BinaryArgs \cup NonBinaryArgs :
        LET out == nif_set_rtc_memory(a, data, data_len, clock)
        IN /\ Call("set_rtc_memory", a, out)
           /\ last_ok_set' = IF out.chan = "return" THEN a.bytes ELSE last_ok_set

GetRtcMemory ==
    \E gc_ok \in BOOLEAN :
        /\ Call("get_rtc_memory", NoTerm, nif_get_rtc_memory(gc_ok, data, data_len, clock))
        /\ UNCHANGED last_ok_set

GetMac ==
    \E gc_ok \in BOOLEAN :
        /\ Call("get_mac", NoTerm, nif_get_mac(gc_ok, mac, data, data_len, clock))
        /\ UNCHANGED last_ok_set

Sha1 ==
    \E a \in Sha1Args \cup NonBinaryArgs, gc_ok \in BOOLEAN, res \in {0, -1} :
        /\ Call("sha1", a, nif_sha1(a, gc_ok, res, data, data_len, clock))
        /\ UNCHANGED last_ok_set

SetTimeOfDay ==
    \E a \in IntegerArgs \cup NonIntegerArgs, os \in SetTimeOfDayResults :
        /\ Call("set_time_of_day", a,
                nif_set_time_of_day(a, os.res, os.errno, os.gc_ok, data, data_len, clock))
        /\ UNCHANGED last_ok_set

GetNif ==
    \E nifname \in NifNames :
        /\ op' = "atomvm_lib_get_nif"
        /\ arg' = [kind |-> "name", name |-> nifname]
        /\ chan' = "return"
        /\ value' = atomvm_lib_get_nif(nifname)
        /\ events' = <<>>
        /\ UNCHANGED <<data, data_len, clock, mac, last_ok_set, conc_vars>>

Next ==
    \/ SetRtcMemory
    \/ GetRtcMemory
    \/ GetMac
    \/ Sha1
    \/ SetTimeOfDay
    \/ GetNif

Spec == Init /\ [][Next]_vars

----------------------------------------------------------------------------
(* Two execution contexts: set_rtc_memory and get_rtc_memory interleaved.   *)
(* Neither function takes a lock, so each load and store of data_len and    *)
(* of a byte of data is a step of its own.                                  *)

Content == [i \in 1..data_len |-> data[i]]

\* both calls are issued; the store holds what earlier calls left in it
ConcStart ==
    /\ set_pc = "idle" /\ get_pc = "idle"
    /\ \E a \in BinaryArgs \cup NonBinaryArgs : set_arg' = a
    /\ set_pc' = "validate"
    /\ get_pc' = "ensure"
    /\ old_content' = Content
    /\ set_i' = 0 /\ set_len' = 0
    /\ get_size' = 0 /\ get_len' = 0 /\ get_buf' = <<>>
    /\ UNCHANGED <<data, data_len, serial_vars>>

\* VALIDATE_VALUE(binary, term_is_binary); the capacity check
ConcSetValidate ==
    /\ set_pc = "validate"
    /\ IF ~term_is_binary(set_arg)
       THEN set_pc' = "raised" /\ set_len' = set_len
       ELSE IF exceeds_capacity(term_binary_size(set_arg))
            THEN set_pc' = "raised" /\ set_len' = set_len
            ELSE set_pc' = "store_len" /\ set_len' = term_binary_size(set_arg)
    /\ UNCHANGED <<data, data_len, serial_vars, set_arg, set_i,
                   get_pc, get_size, get_len, get_buf, old_content>>

\* data_len = binary_len;
ConcSetLen ==
    /\ set_pc = "store_len"
    /\ data_len' = set_len
    /\ set_pc' = "copy"
    /\ UNCHANGED <<data, serial_vars, set_arg, set_i, set_len,
                   get_pc, get_size, get_len, get_buf, old_content>>

\* memcpy(data, term_binary_data(binary), binary_len): one byte
ConcSetCopyByte ==
    /\ set_pc = "copy"
    /\ set_i < set_len
    /\ data' = [data EXCEPT ![set_i + 1] = term_binary_data(set_arg)[set_i + 1]]
    /\ set_i' = set_i + 1
    /\ UNCHANGED <<data_len, serial_vars, set_arg, set_pc, set_len,
                   get_pc, get_size, get_len, get_buf, old_content>>

\* return OK_ATOM;
ConcSetReturn ==
    /\ set_pc = "copy"
    /\ set_i = set_len
    /\ set_pc' = "returned"
    /\ UNCHANGED <<data, data_len, serial_vars, set_arg, set_i, set_len,
                   get_pc, get_size, get_len, get_buf, old_content>>

\* memory_ensure_free(ctx, term_binary_heap_size(data_len))
ConcGetEnsure ==
    /\ get_pc = "ensure"
    /\ get_size' = term_binary_heap_size(data_len)
    /\ \E gc_ok \in BOOLEAN : get_pc' = IF gc_ok THEN "construct" ELSE "raised"
    /\ UNCHANGED <<data, data_len, serial_vars, set_pc, set_arg, set_i, set_len,
                   get_len, get_buf, old_content>>

\* term_from_literal_binary(data, data_len, ...): data_len is loaded again
ConcGetConstruct ==
    /\ get_pc = "construct"
    /\ get_len' = data_len
    /\ get_pc' = "copy"
    /\ UNCHANGED <<data, data_len, serial_vars, set_pc, set_arg, set_i, set_len,
                   get_size, get_buf, old_content>>

\* the copy into the new binary: one byte
ConcGetCopyByte ==
    /\ get_pc = "copy"
    /\ Len(get_buf) < get_len
    /\ get_buf' = Append(get_buf, data[Len(get_buf) + 1])
    /\ UNCHANGED <<data, data_len, serial_vars, set_pc, set_arg, set_i, set_len,
                   get_pc, get_size, get_len, old_content>>

ConcGetReturn ==
    /\ get_pc = "copy"
    /\ Len(get_buf) = get_len
    /\ get_pc' = "returned"
    /\ UNCHANGED <<data, data_len, serial_vars, set_pc, set_arg, set_i, set_len,
                   get_size, get_len, get_buf, old_content>>

\* both calls are over; the contexts are free for the next pair
ConcFinish ==
    /\ set_pc \in {"returned", "raised"}
    /\ get_pc \in {"returned", "raised"}
    /\ set_pc' = "idle"
    /\ get_pc' = "idle"
    /\ UNCHANGED <<data, data_len, serial_vars, set_arg, set_i, set_len,
                   get_size, get_len, get_buf, old_content>>

NextConc ==
    \/ ConcStart
    \/ ConcSetValidate
    \/ ConcSetLen
    \/ ConcSetCopyByte
    \/ ConcSetReturn
    \/ ConcGetEnsure
    \/ ConcGetConstruct
    \/ ConcGetCopyByte
    \/ ConcGetReturn
    \/ ConcFinish

SpecConc == Init /\ [][NextConc]_vars

----------------------------------------------------------------------------
(* Properties *)

EventsOf(kind) == {i \in 1..Len(events) : events[i].ev = kind}
Ensures == EventsOf("memory_ensure_free")
Constructs == EventsOf("construct")
OsClockCalls == EventsOf("settimeofday")
BootClock == [tv_sec |-> 0, tv_usec |-> 0]

\* C1: get_rtc_memory returns a binary equal, in length and bytes, to the
\* argument of the most recent set_rtc_memory that returned ok, and the empty
\* binary when no set_rtc_memory has returned ok since boot.
RoundTrip ==
    (op = "get_rtc_memory" /\ chan = "return") => value = Binary(last_ok_set)

\* a one-byte binary read back while a stale byte of a longer, earlier write
\* still sits behind it in the buffer
RoundTripWitness ==
    /\ op = "get_rtc_memory" /\ chan = "return"
    /\ value = Binary(<<1>>)
    /\ data[2] = 1

\* C2: set_rtc_memory of a non-binary, or of a binary longer than
\* CONFIG_RTC_MEMORY_SIZE, raises badarg and leaves data and data_len as
\* they were before the call.
RejectedSet(a) ==
    IF term_is_binary(a) THEN term_binary_size(a) > CONFIG_RTC_MEMORY_SIZE ELSE TRUE

RejectionIsAtomic ==
    [][(op' = "set_rtc_memory" /\ RejectedSet(arg'))
        => (/\ chan' = "raise"
            /\ value' = BADARG_ATOM
            /\ data' = data
            /\ data_len' = data_len)]_vars

\* an over-long binary was refused while the store held a full buffer
RejectionWitness ==
    /\ op = "set_rtc_memory" /\ chan = "raise"
    /\ term_is_binary(arg)
    /\ data_len = CONFIG_RTC_MEMORY_SIZE
    /\ data[1] = 1

\* C3: in every reachable state the stored length lies between 0 and
\* CONFIG_RTC_MEMORY_SIZE.
LengthWithinCapacity == data_len \in 0..CONFIG_RTC_MEMORY_SIZE

\* a write of exactly CONFIG_RTC_MEMORY_SIZE bytes was accepted
LengthWitness ==
    /\ op = "set_rtc_memory" /\ chan = "return"
    /\ term_binary_size(arg) = CONFIG_RTC_MEMORY_SIZE
    /\ data_len = CONFIG_RTC_MEMORY_SIZE

\* C4: when settimeofday fails and the heap has room for a 2-tuple,
\* set_time_of_day hands {error, errno} back through the normal return
\* channel; it raises only badarg and out_of_memory.
NativeFailureIsReturned ==
    op = "set_time_of_day" =>
        /\ ((\E i \in OsClockCalls : ~events[i].ok) /\ (\E j \in Ensures : events[j].ok))
              => (chan = "return" /\ value.kind = "tuple" /\ value.elems[1] = ERROR_ATOM)
        /\ chan = "raise" => value \in {BADARG_ATOM, OUT_OF_MEMORY_ATOM}

\* C5: for every integer ms, settimeofday receives tv_sec = floor(ms / 1000)
\* and tv_usec = (ms - 1000 * tv_sec) * 1000, with 0 <= tv_usec < 1000000.
FloorSplit ==
    (op = "set_time_of_day" /\ term_is_any_integer(arg)) =>
        \A i \in OsClockCalls :
            LET ms == arg.val
                tp == events[i].tp
            IN /\ tp.tv_sec = ms \div 1000
               /\ tp.tv_usec = (ms - 1000 * tp.tv_sec) * 1000
               /\ 0 <= tp.tv_usec /\ tp.tv_usec < 1000000

\* C6: set_time_of_day of a non-integer raises badarg, makes no settimeofday
\* call and leaves the OS clock as it was; settimeofday is called only for
\* an integer argument.
NoClockCallOnBadArgument ==
    [][op' = "set_time_of_day"
        => /\ ~term_is_any_integer(arg')
               => (/\ chan' = "raise"
                   /\ value' = BADARG_ATOM
                   /\ \A i \in 1..Len(events') : events'[i].ev # "settimeofday"
                   /\ clock' = clock)
           /\ (\E i \in 1..Len(events') : events'[i].ev = "settimeofday")
               => term_is_any_integer(arg')]_vars

\* a non-integer was refused after the clock had been moved off its boot value
BadArgumentClockWitness ==
    /\ op = "set_time_of_day" /\ chan = "raise" /\ value = BADARG_ATOM
    /\ ~term_is_any_integer(arg)
    /\ clock # BootClock

\* C7: data and data_len change only in a set_rtc_memory that returns ok;
\* get_rtc_memory (returning or raising out_of_memory), get_mac, sha1 and
\* set_time_of_day leave both unchanged, and two get_rtc_memory calls in a
\* row return equal binaries.
StoreChangedOnlyBySet ==
    [][/\ ~(op' = "set_rtc_memory" /\ chan' = "return")
            => (data' = data /\ data_len' = data_len)
       /\ (op = "get_rtc_memory" /\ chan = "return"
              /\ op' = "get_rtc_memory" /\ chan' = "return")
            => value' = value]_vars

\* a read that ran out of heap while the store held a full, non-zero buffer
StoreFrameWitness ==
    /\ op = "get_rtc_memory" /\ chan = "raise" /\ value = OUT_OF_MEMORY_ATOM
    /\ data_len = CONFIG_RTC_MEMORY_SIZE
    /\ data[CONFIG_RTC_MEMORY_SIZE] = 1

\* C8: atomvm_lib_get_nif answers NULL for every name that is not one of the
\* five qualified names, answers the descriptor of the matching native
\* function for each of the five, and changes no state.
ExpectedNif(name) ==
    CASE name = "atomvm_lib:set_rtc_memory/1" -> Nif("nif_set_rtc_memory")
      [] name = "atomvm_lib:get_rtc_memory/0" -> Nif("nif_get_rtc_memory")
      [] name = "atomvm_lib:get_mac/0" -> Nif("nif_get_mac")
      [] name = "atomvm_lib:sha1/1" -> Nif("nif_sha1")
      [] name = "atomvm_lib:set_time_of_day/1" -> Nif("nif_set_time_of_day")
      [] OTHER -> [kind |-> "null"]

ResolutionIsExact ==
    [][op' = "atomvm_lib_get_nif"
        => /\ value' = ExpectedNif(arg'.name)
           /\ UNCHANGED <<data, data_len, clock, mac>>]_vars

\* the right function with the wrong arity was looked up and not found
ResolutionWitness ==
    /\ op = "atomvm_lib_get_nif"
    /\ arg.name = "atomvm_lib:sha1/2"
    /\ value = NULL
    /\ data_len > 0

\* C9: in get_rtc_memory, get_mac, sha1 and the failure path of
\* set_time_of_day the heap reservation (for data_len bytes, 12 bytes, 20
\* bytes and a 2-tuple) precedes every construction of a term; a failed
\* reservation raises out_of_memory with nothing constructed; set_rtc_memory
\* and the success path of set_time_of_day reserve and construct nothing.
ReservedWords ==
    CASE op = "get_rtc_memory" -> term_binary_heap_size(data_len)
      [] op = "get_mac" -> term_binary_heap_size(12)
      [] op = "sha1" -> term_binary_heap_size(20)
      [] op = "set_time_of_day" -> TUPLE_SIZE(2)
      [] OTHER -> 0

ReserveBeforeConstruct ==
    /\ \A i \in Constructs :
          \E j \in Ensures : j < i /\ events[j].ok /\ events[j].words >= events[i].words
    /\ \A j \in Ensures : events[j].words = ReservedWords
    /\ (\E j \in Ensures : ~events[j].ok)
          => (chan = "raise" /\ value = OUT_OF_MEMORY_ATOM /\ Constructs = {})
    /\ (op \in {"get_rtc_memory", "get_mac"} \/ (op = "sha1" /\ term_is_binary(arg)))
          => Ensures # {}
    /\ (op = "set_time_of_day" /\ \E i \in OsClockCalls : ~events[i].ok)
          => Ensures # {}
    /\ (op = "set_rtc_memory" \/ (op = "set_time_of_day" /\ chan = "return"))
          => (Ensures = {} /\ Constructs = {})

\* settimeofday failed and the heap had no room for the error tuple
ReserveWitness ==
    /\ op = "set_time_of_day" /\ chan = "raise" /\ value = OUT_OF_MEMORY_ATOM
    /\ OsClockCalls # {}
    /\ Constructs = {}

\* C10: with set_rtc_memory(b) and get_rtc_memory interleaved, get_rtc_memory
\* returns either the content stored before the set or exactly b.
ConcurrentReadIsWhole ==
    get_pc = "returned" =>
        \/ get_buf = old_content
        \/ /\ term_is_binary(set_arg)
           /\ ~exceeds_capacity(term_binary_size(set_arg))
           /\ get_buf = term_binary_data(set_arg)

====
